---- MODULE Spec2Model ----
(***************************************************************************)
(* State machines of the three components of the front end:                *)
(*                                                                         *)
(*  - SqlDataExtractor (src/frontend/components/chat-interface.tsx, lines  *)
(*    160-698): the jobs list, the active-job panel, the extraction steps  *)
(*    and the concurrent invocations of startExtraction (Spec, SerialSpec, *)
(*    FairSpec);                                                           *)
(*  - ChatInterface (the same file, lines 46-109): the message list, the   *)
(*    typing indicator and the concurrent invocations of                   *)
(*    handleSendMessage (ChatSpec, ChatFairSpec);                          *)
(*  - Parent (chat-message/parent.tsx) with the layout renderers it        *)
(*    calls: its prop reply, its state response and what it shows          *)
(*    (ParentSpec).                                                        *)
(*                                                                         *)
(* The components share no state, so each specification moves the          *)
(* variables of one component and leaves the others as they start.         *)
(*                                                                         *)
(* JavaScript runs each handler to completion, so an invocation of         *)
(* startExtraction that is between two awaits is the only thing that       *)
(* moves: every other action is guarded by Idle.  Inside that handler each *)
(* setState call is one step: React applies the queued updaters one after  *)
(* the other, each to the value the previous one produced.  The two        *)
(* updates of a segment of handleSendMessage are one step.                 *)
(*                                                                         *)
(* folderName, startedAt and the text of completedAt are display strings   *)
(* that no handler reads; completedAt is kept as present / absent, which   *)
(* is all line 665 looks at.  A string that is parsed is kept as the       *)
(* sequence of its lexical pieces, and JSON.stringify and JSON.parse       *)
(* convert between such sequences and values.                              *)
(***************************************************************************)
EXTENDS Integers, Sequences, FiniteSets, TLC

VARIABLES jobs, activeJob, extractionSteps, isDragging, procs, timers, clock,
          messages, isTyping, chats,
          reply, response, output, parentPhase

\* The state of SqlDataExtractor, of ChatInterface and of one Parent.
extractorVars == <<jobs, activeJob, extractionSteps, isDragging, procs, timers>>
chatVars == <<messages, isTyping, chats>>
parentVars == <<reply, response, output, parentPhase>>

vars == <<extractorVars, clock, chatVars, parentVars>>

\* ------------------------------------------------------------------ bounds
\* Number of startExtraction invocations in one run.
MaxSubmits == 2

\* Number of handleSendMessage invocations in one run.
MaxSends == 2

\* ------------------------------------------------------------------ values
\* An optional string field that is absent (undefined).
NoValue == "undefined"

\* An optional value of another type: the empty tuple when it is absent (null
\* or undefined), the one-element tuple of the value when it is present.
None == <<>>
Some(x) == <<x>>
IsSome(o) == o # <<>>
Get(o) == o[1]

\* `job-${Date.now()}`: the id is the clock reading behind a fixed prefix.
JobId(now) == <<"job-", now>>

\* The ids "1" and "2" of the two records the component starts with.
SeedId(n) == <<"", n>>

TerminalStatuses == {"completed", "failed"}

\* The fallback texts of lines 309 and 334.
ExtractionFailedText == "Extraction failed"
UnknownErrorText == "Unknown error occurred"

\* ------------------------------------------------------------------ inputs
\* files.length of a selection or drop: no file, or a folder of two files.
FileCounts == {0, 2}

\* One parsed query of a file result; values is given by its length and may
\* be absent.
ParsedQuery(table_name, values) == [table_name |-> table_name, values |-> values]

\* result.parsed_queries: absent, the one query of a 3-row file for table
\* courses, or two queries of which the second carries no values.
ParsedQueryLists ==
  { None,
    Some(<<ParsedQuery("courses", Some(3))>>),
    Some(<<ParsedQuery("students", Some(1)), ParsedQuery("courses", None)>>) }

FileResultInputs == [success : BOOLEAN, parsed_queries : ParsedQueryLists]

\* data.results: absent, empty, one file result, or two.
ResultLists ==
  {None, Some(<<>>)} \cup {Some(<<r>>) : r \in FileResultInputs}
    \cup {Some(<<r1, r2>>) : r1 \in FileResultInputs,
                             r2 \in {r \in FileResultInputs :
                                       r.parsed_queries = Some(<<ParsedQuery("courses", Some(3))>>)}}

\* response.data of POST /api/sql/insert-uploaded, when it is an object: a
\* payload that reports success, a failure without error text and without
\* results, or a failure with an error text where one of the two files was
\* inserted all the same.
ResponseInputs ==
  [success : {TRUE}, error : {NoValue}, results : ResultLists]
    \cup { [success |-> FALSE, error |-> NoValue, results |-> None],
           [success |-> FALSE, error |-> "bad rows",
            results |-> Some(<<[success |-> TRUE,
                                parsed_queries |-> Some(<<ParsedQuery("courses", Some(3))>>)],
                               [success |-> FALSE,
                                parsed_queries |-> Some(<<ParsedQuery("courses", Some(3))>>)]>>)] }

\* What the awaited request can throw: an HTTP error status whose body carries
\* an error text, the timeout of line 265 (a message and no response), or a
\* rejection without response and without message.
RejectionInputs ==
  { [responseError |-> "server error", message |-> "Request failed"],
    [responseError |-> NoValue, message |-> "timeout of 300000ms exceeded"],
    [responseError |-> NoValue, message |-> NoValue] }

\* The TypeError thrown at line 279 when response.data is null or undefined.
DataTypeError == [responseError |-> NoValue, message |-> "data is undefined"]

\* ------------------------------------------------------------------ steps
StepIds == <<"scan", "parse", "validate", "transform", "insert", "verify">>

\* Lines 225-232.
InitialSteps == [i \in 1..Len(StepIds) |-> [id |-> StepIds[i], status |-> "pending"]]

\* updateStepStatus with the test of line 352 widened to idx <= stepIndex.
updateStepStatusUpTo(steps, stepIndex, status) ==
  [i \in 1..Len(steps) |->
     IF i - 1 <= stepIndex THEN [steps[i] EXCEPT !.status = status] ELSE steps[i]]

\* Lines 349-357; stepIndex counts from 0 as in the source.
updateStepStatus(steps, stepIndex, status) ==
  [i \in 1..Len(steps) |->
     IF i - 1 = stepIndex THEN [steps[i] EXCEPT !.status = status]
     ELSE IF status = "completed" /\ i - 1 < stepIndex
          THEN [steps[i] EXCEPT !.status = "completed"]
          ELSE steps[i]]

\* prev.findIndex((s) => s.status === "active"), counting from 0; -1 if none.
FindActiveIndex(steps) ==
  IF \E i \in 1..Len(steps) : steps[i].status = "active"
  THEN (CHOOSE i \in 1..Len(steps) :
          /\ steps[i].status = "active"
          /\ \A j \in 1..(i - 1) : steps[j].status # "active") - 1
  ELSE -1

\* The catch block marking every step that is not completed.
MarkUnfinishedError(steps) ==
  [i \in 1..Len(steps) |->
     IF steps[i].status # "completed" THEN [steps[i] EXCEPT !.status = "error"]
     ELSE steps[i]]

\* Lines 326-332.
MarkActiveError(steps) ==
  [i \in 1..Len(steps) |->
     IF i - 1 = FindActiveIndex(steps) THEN [steps[i] EXCEPT !.status = "error"]
     ELSE steps[i]]

\* ------------------------------------------------------------------ jobs
\* Lines 209-219.
NewJob(jobId, filesCount) ==
  [ id |-> jobId, filesCount |-> filesCount, status |-> "queued", progress |-> 0,
    rowsExtracted |-> 0, rowsInserted |-> 0, tablesAffected |-> <<>>,
    completedAt |-> NoValue, error |-> NoValue ]

\* Lines 162-187.
SeedJobs ==
  << [ id |-> SeedId(1), filesCount |-> 15, status |-> "completed", progress |-> 100,
       rowsExtracted |-> 2450, rowsInserted |-> 2450,
       tablesAffected |-> <<"students", "enrollments", "grades">>,
       completedAt |-> "set", error |-> NoValue ],
     [ id |-> SeedId(2), filesCount |-> 8, status |-> "completed", progress |-> 100,
       rowsExtracted |-> 890, rowsInserted |-> 890,
       tablesAffected |-> <<"courses", "schedules">>,
       completedAt |-> "set", error |-> NoValue ] >>

\* { ...job, status, progress, ...updates }: updates is a record holding only
\* the keys that were passed.
Patch(job, status, progress, updates) ==
  [f \in DOMAIN job |->
     IF f \in DOMAIN updates THEN updates[f]
     ELSE IF f = "status" THEN status
     ELSE IF f = "progress" THEN progress
     ELSE job[f]]

\* Lines 365-376.
updateJobs(prev, jobId, status, progress, updates) ==
  [i \in 1..Len(prev) |->
     IF prev[i].id = jobId THEN Patch(prev[i], status, progress, updates) ELSE prev[i]]

\* Lines 378-387.
updateActiveJob(prev, jobId, status, progress, updates) ==
  IF IsSome(prev) /\ Get(prev).id = jobId
  THEN Some(Patch(Get(prev), status, progress, updates))
  ELSE prev

NoUpdates == [x \in {} |-> NoValue]

\* --------------------------------------------------- the body of startExtraction
StepOp(stepIndex, status) == [kind |-> "step", stepIndex |-> stepIndex, status |-> status]
JobOp(status, progress) == [kind |-> "job", status |-> status, progress |-> progress]

\* Lines 237-262: the updates issued before the request, in program order.
TryOps ==
  << StepOp(0, "active"), JobOp("extracting", 10),
     StepOp(0, "completed"), StepOp(1, "active"), JobOp("extracting", 25),
     StepOp(1, "completed"), StepOp(2, "active"), JobOp("extracting", 40),
     StepOp(2, "completed"), StepOp(3, "active"), JobOp("extracting", 60),
     StepOp(3, "completed"), StepOp(4, "active"), JobOp("inserting", 75) >>

\* Lines 274-276: the updates issued when the request has returned.
ResumeOps ==
  << StepOp(4, "completed"), StepOp(5, "active"), JobOp("inserting", 90) >>

\* Line 289: Set.add keeps the first insertion of a name, in insertion order.
AddTable(tables, name) ==
  IF \E i \in 1..Len(tables) : tables[i] = name THEN tables ELSE Append(tables, name)

\* pq.values?.length || 0
ValuesLength(pq) == IF IsSome(pq.values) THEN Get(pq.values) ELSE 0

\* Lines 288-292, from the i-th parsed query on.
RECURSIVE EachParsedQuery(_, _, _)
EachParsedQuery(acc, pqs, i) ==
  IF i > Len(pqs) THEN acc
  ELSE EachParsedQuery(
         [ totalRowsExtracted |-> acc.totalRowsExtracted + ValuesLength(pqs[i]),
           totalRowsInserted |-> acc.totalRowsInserted + ValuesLength(pqs[i]),
           tablesSet |-> AddTable(acc.tablesSet, pqs[i].table_name) ],
         pqs, i + 1)

\* EachResult without the filter of line 280.
RECURSIVE EachResultUnfiltered(_, _, _)
EachResultUnfiltered(acc, results, i) ==
  IF i > Len(results) THEN acc
  ELSE EachResultUnfiltered(
         IF IsSome(results[i].parsed_queries)
         THEN EachParsedQuery(acc, Get(results[i].parsed_queries), 1)
         ELSE acc,
         results, i + 1)

\* Lines 280 and 286-294, from the i-th file result on: results that are not
\* successful are filtered out, a result without parsed_queries adds nothing.
RECURSIVE EachResult(_, _, _)
EachResult(acc, results, i) ==
  IF i > Len(results) THEN acc
  ELSE EachResult(
         IF results[i].success /\ IsSome(results[i].parsed_queries)
         THEN EachParsedQuery(acc, Get(results[i].parsed_queries), 1)
         ELSE acc,
         results, i + 1)

\* Lines 279-294.
Totals(data) ==
  EachResult([totalRowsExtracted |-> 0, totalRowsInserted |-> 0, tablesSet |-> <<>>],
             IF IsSome(data.results) THEN Get(data.results) ELSE <<>>, 1)

\* Lines 299-315: the final update of the try block.
FinalUpdates(success, dataError, totals) ==
  IF success
  THEN [ rowsExtracted |-> totals.totalRowsExtracted,
         rowsInserted |-> totals.totalRowsInserted,
         tablesAffected |-> totals.tablesSet,
         completedAt |-> "set" ]
  ELSE [ error |-> IF dataError # NoValue THEN dataError ELSE ExtractionFailedText,
         rowsExtracted |-> totals.totalRowsExtracted,
         rowsInserted |-> totals.totalRowsInserted,
         tablesAffected |-> totals.tablesSet ]

\* FinalStatus with the failing branch of line 308 keeping the running status.
FinalStatusStuck(success) == IF success THEN "completed" ELSE "inserting"

\* Lines 300 and 308: the status of the final update.
FinalStatus(success) == IF success THEN "completed" ELSE "failed"

\* Line 334.
ErrorMessage(thrown) ==
  IF thrown.responseError # NoValue THEN thrown.responseError
  ELSE IF thrown.message # NoValue THEN thrown.message
  ELSE UnknownErrorText

\* Lines 335-338.
CatchUpdates(thrown) == [error |-> ErrorMessage(thrown), completedAt |-> "set"]

\* ------------------------------------------------------------------ strings and JSON
\* A string that is parsed is the sequence of its lexical pieces: a
\* punctuation character, a quoted string literal, a run of white space, or
\* any other run of characters (a bare word).
Punct(c) == [t |-> "punct", s |-> c]
Str(s) == [t |-> "string", s |-> s]
Space == [t |-> "space", s |-> " "]
Word(s) == [t |-> "word", s |-> s]

\* A JavaScript value: a string, one of the literals null, true and false, an
\* array of values, an object (its members in insertion order), or undefined.
JStr(s) == [k |-> "string", s |-> s, a |-> <<>>]
JLit(w) == [k |-> "literal", s |-> w, a |-> <<>>]
JArr(elements) == [k |-> "array", s |-> "", a |-> elements]
JObj(members) == [k |-> "object", s |-> "", a |-> members]
JUndefined == [k |-> "undefined", s |-> "", a |-> <<>>]
JNull == JLit("null")
Member(key, val) == [key |-> key, val |-> val]

\* value[key]: the last member of that name, undefined when there is none or
\* when the value is not an object.
Prop(value, key) ==
  IF value.k = "object" /\ \E n \in 1..Len(value.a) : value.a[n].key = key
  THEN value.a[CHOOSE n \in 1..Len(value.a) :
                 /\ value.a[n].key = key
                 /\ \A m \in (n + 1)..Len(value.a) : value.a[m].key # key].val
  ELSE JUndefined

\* Reading a property of null or undefined throws a TypeError.
Nullish(value) == value = JUndefined \/ value = JNull

\* The test of && and ?: on a value.
Truthy(value) ==
  /\ ~Nullish(value)
  /\ value # JLit("false")
  /\ value # JStr("")

\* JSON.stringify: no white space, members in insertion order.
RECURSIVE Stringify(_)
RECURSIVE StringifyAll(_, _, _)
StringifyAll(value, n, isObject) ==
  IF n > Len(value.a) THEN <<>>
  ELSE (IF n > 1 THEN <<Punct(",")>> ELSE <<>>)
         \o (IF isObject
             THEN <<Str(value.a[n].key), Punct(":")>> \o Stringify(value.a[n].val)
             ELSE Stringify(value.a[n]))
         \o StringifyAll(value, n + 1, isObject)

Stringify(value) ==
  CASE value.k = "string" -> <<Str(value.s)>>
    [] value.k = "literal" -> <<Word(value.s)>>
    [] value.k = "array" -> <<Punct("[")>> \o StringifyAll(value, 1, FALSE) \o <<Punct("]")>>
    [] value.k = "object" -> <<Punct("{")>> \o StringifyAll(value, 1, TRUE) \o <<Punct("}")>>
    [] OTHER -> <<>>

\* The position of the first piece at or after i that is not white space.
RECURSIVE SkipSpace(_, _)
SkipSpace(text, i) ==
  IF i <= Len(text) /\ text[i] = Space THEN SkipSpace(text, i + 1) ELSE i

\* The result of parsing one value: the value and the position after it, or
\* a SyntaxError.
Parsed(val, next) == [ok |-> TRUE, val |-> val, next |-> next]
SyntaxError == [ok |-> FALSE, val |-> JUndefined, next |-> 0]

At(text, i, piece) == i <= Len(text) /\ text[i] = piece

\* JSON.parse, by recursive descent from position i.  ParseMembers and
\* ParseElements stand after "{" or "," and after "[" or ",".
RECURSIVE ParseValue(_, _)
RECURSIVE ParseMembers(_, _, _)
RECURSIVE ParseElements(_, _, _)
ParseMembers(text, i, acc) ==
  LET k == SkipSpace(text, i)
      c == SkipSpace(text, k + 1)
      v == ParseValue(text, c + 1)
      e == SkipSpace(text, v.next)
  IN IF ~(k <= Len(text) /\ text[k].t = "string" /\ At(text, c, Punct(":"))) THEN SyntaxError
     ELSE IF ~v.ok THEN SyntaxError
     ELSE IF At(text, e, Punct("}"))
          THEN Parsed(JObj(Append(acc, Member(text[k].s, v.val))), e + 1)
     ELSE IF At(text, e, Punct(","))
          THEN ParseMembers(text, e + 1, Append(acc, Member(text[k].s, v.val)))
     ELSE SyntaxError

ParseElements(text, i, acc) ==
  LET v == ParseValue(text, i)
      e == SkipSpace(text, v.next)
  IN IF ~v.ok THEN SyntaxError
     ELSE IF At(text, e, Punct("]")) THEN Parsed(JArr(Append(acc, v.val)), e + 1)
     ELSE IF At(text, e, Punct(",")) THEN ParseElements(text, e + 1, Append(acc, v.val))
     ELSE SyntaxError

ParseValue(text, i) ==
  LET k == SkipSpace(text, i)
  IN IF k > Len(text) THEN SyntaxError
     ELSE IF text[k].t = "string" THEN Parsed(JStr(text[k].s), k + 1)
     ELSE IF text[k].t = "word"
          THEN IF text[k].s \in {"null", "true", "false"}
               THEN Parsed(JLit(text[k].s), k + 1)
               ELSE SyntaxError
     ELSE IF text[k] = Punct("{")
          THEN IF At(text, SkipSpace(text, k + 1), Punct("}"))
               THEN Parsed(JObj(<<>>), SkipSpace(text, k + 1) + 1)
               ELSE ParseMembers(text, k + 1, <<>>)
     ELSE IF text[k] = Punct("[")
          THEN IF At(text, SkipSpace(text, k + 1), Punct("]"))
               THEN Parsed(JArr(<<>>), SkipSpace(text, k + 1) + 1)
               ELSE ParseElements(text, k + 1, <<>>)
     ELSE SyntaxError

\* JSON.parse(text): one value and nothing but white space after it.
JSONParse(text) ==
  LET v == ParseValue(text, 1)
  IN IF v.ok /\ SkipSpace(text, v.next) > Len(text) THEN v ELSE SyntaxError

\* text.trim().startsWith(c), for a punctuation character c.
RECURSIVE TrimStart(_)
TrimStart(text) ==
  IF text # <<>> /\ text[1] = Space THEN TrimStart(Tail(text)) ELSE text

TrimStartsWith(text, c) == TrimStart(text) # <<>> /\ TrimStart(text)[1] = Punct(c)

\* ------------------------------------------------------------------ the message renderer
\* What React shows for {value}: the text of a string, nothing for null,
\* undefined, true and false.
Shown(value) == IF value.k = "string" THEN value.s ELSE ""

\* value.map(...) throws a TypeError unless the value is an array.
IsArray(value) == value.k = "array"

\* What a layout renderer puts on the screen: the header cells and the body
\* lines, each a sequence of texts.
Dom(head, body) == [head |-> head, body |-> body]

\* TableComponent with the cells of a body row taken from the row's own
\* members instead of the declared columns.
TableComponentRowKeys(table_layout) ==
  LET columns == Prop(table_layout, "columns").a
      rows == Prop(table_layout, "rows").a
  IN Dom([c \in 1..Len(columns) |-> Shown(Prop(columns[c], "label"))],
         [r \in 1..Len(rows) |-> [m \in 1..Len(rows[r].a) |-> Shown(rows[r].a[m].val)]])

\* Table.tsx, lines 21-23 and 27-33.
TableComponent(table_layout) ==
  LET columns == Prop(table_layout, "columns").a
      rows == Prop(table_layout, "rows").a
  IN Dom([c \in 1..Len(columns) |-> Shown(Prop(columns[c], "label"))],
         [r \in 1..Len(rows) |->
            [c \in 1..Len(columns) |-> Shown(Prop(rows[r], Prop(columns[c], "key").s))]])

\* The dereferences of Table.tsx that throw.
TableThrows(table_layout) ==
  \/ ~IsArray(Prop(table_layout, "columns"))
  \/ ~IsArray(Prop(table_layout, "rows"))
  \/ \E c \in 1..Len(Prop(table_layout, "columns").a) :
       Nullish(Prop(table_layout, "columns").a[c])
  \/ /\ Prop(table_layout, "columns").a # <<>>
     /\ \E r \in 1..Len(Prop(table_layout, "rows").a) :
          Nullish(Prop(table_layout, "rows").a[r])

\* List.tsx, lines 15-23.
ListComponent(list_layout) ==
  LET items == Prop(list_layout, "items").a
  IN Dom(<<>>, [n \in 1..Len(items) |-> <<Shown(Prop(items[n], "text"))>>])

ListThrows(list_layout) ==
  \/ ~IsArray(Prop(list_layout, "items"))
  \/ \E n \in 1..Len(Prop(list_layout, "items").a) :
       Nullish(Prop(list_layout, "items").a[n])

\* Text.tsx, lines 11-15.
TextComponent(text_layout) == Dom(<<>>, <<<<Shown(Prop(text_layout, "content"))>>>>)

\* The cards renderer (lines 48-70 of the second file of List.tsx): one line
\* per card, the values of its meta entries with a known label, then its
\* subtitle.
KnownLabels == {"head", "body", "image", "footer"}

RECURSIVE MetaValues(_, _)
MetaValues(meta, n) ==
  IF n > Len(meta) THEN <<>>
  ELSE (IF Prop(meta[n], "label").k = "string" /\ Prop(meta[n], "label").s \in KnownLabels
        THEN <<Shown(Prop(meta[n], "value"))>>
        ELSE <<>>)
         \o MetaValues(meta, n + 1)

CardsComponent(cards_layout) ==
  LET cards == Prop(cards_layout, "cards").a
  IN Dom(<<>>, [n \in 1..Len(cards) |->
                  MetaValues(Prop(cards[n], "meta").a, 1)
                    \o (IF Truthy(Prop(cards[n], "subtitle"))
                        THEN <<Shown(Prop(cards[n], "subtitle"))>> ELSE <<>>)])

CardsThrows(cards_layout) ==
  \/ ~IsArray(Prop(cards_layout, "cards"))
  \/ \E n \in 1..Len(Prop(cards_layout, "cards").a) :
       LET card == Prop(cards_layout, "cards").a[n]
       IN \/ Nullish(card)
          \/ ~IsArray(Prop(card, "meta"))
          \/ \E m \in 1..Len(Prop(card, "meta").a) : Nullish(Prop(card, "meta").a[m])

\* One entry of the array that components.map returns: the layout renderer
\* that is invoked, the layout it is given and what it shows; null invokes none.
Element(renderer, layout, dom) == [renderer |-> renderer, layout |-> layout, dom |-> dom]
NullElement == Element("null", JUndefined, Dom(<<>>, <<>>))

\* The switch of parent.tsx with the case "list" handing over text_layout.
RenderComponentMixed(comp) ==
  LET type == Prop(comp, "component_type")
  IN CASE type = JStr("table") /\ Truthy(Prop(comp, "table_layout")) ->
            Element("TableComponent", Prop(comp, "table_layout"),
                    TableComponent(Prop(comp, "table_layout")))
       [] type = JStr("cards") /\ Truthy(Prop(comp, "cards_layout")) ->
            Element("CardsComponent", Prop(comp, "cards_layout"),
                    CardsComponent(Prop(comp, "cards_layout")))
       [] type = JStr("list") /\ Truthy(Prop(comp, "text_layout")) ->
            Element("ListComponent", Prop(comp, "text_layout"),
                    ListComponent(Prop(comp, "text_layout")))
       [] type = JStr("text") /\ Truthy(Prop(comp, "text_layout")) ->
            Element("TextComponent", Prop(comp, "text_layout"),
                    TextComponent(Prop(comp, "text_layout")))
       [] OTHER -> NullElement

\* parent.tsx, lines 43-66.
RenderComponent(comp) ==
  LET type == Prop(comp, "component_type")
  IN CASE type = JStr("table") /\ Truthy(Prop(comp, "table_layout")) ->
            Element("TableComponent", Prop(comp, "table_layout"),
                    TableComponent(Prop(comp, "table_layout")))
       [] type = JStr("cards") /\ Truthy(Prop(comp, "cards_layout")) ->
            Element("CardsComponent", Prop(comp, "cards_layout"),
                    CardsComponent(Prop(comp, "cards_layout")))
       [] type = JStr("list") /\ Truthy(Prop(comp, "list_layout")) ->
            Element("ListComponent", Prop(comp, "list_layout"),
                    ListComponent(Prop(comp, "list_layout")))
       [] type = JStr("text") /\ Truthy(Prop(comp, "text_layout")) ->
            Element("TextComponent", Prop(comp, "text_layout"),
                    TextComponent(Prop(comp, "text_layout")))
       [] OTHER -> NullElement

\* The dereferences of lines 43-62 and of the renderer invoked that throw.
ComponentThrows(comp) ==
  LET type == Prop(comp, "component_type")
  IN \/ Nullish(comp)
     \/ type = JStr("table") /\ Truthy(Prop(comp, "table_layout"))
          /\ TableThrows(Prop(comp, "table_layout"))
     \/ type = JStr("cards") /\ Truthy(Prop(comp, "cards_layout"))
          /\ CardsThrows(Prop(comp, "cards_layout"))
     \/ type = JStr("list") /\ Truthy(Prop(comp, "list_layout"))
          /\ ListThrows(Prop(comp, "list_layout"))

\* parent.tsx, lines 37-68: the message of a block, when it has one, and one
\* entry per component, in the order of the components.
RenderBlock(block) ==
  [ message |-> IF Truthy(Prop(block, "message")) THEN Shown(Prop(block, "message")) ELSE "",
    children |-> [j \in 1..Len(Prop(block, "components").a) |->
                    RenderComponent(Prop(block, "components").a[j])] ]

BlockThrows(block) ==
  \/ Nullish(block)
  \/ ~IsArray(Prop(block, "components"))
  \/ \E j \in 1..Len(Prop(block, "components").a) :
       ComponentThrows(Prop(block, "components").a[j])

\* The dereferences of lines 31-72 that throw a TypeError.
RenderThrows(parsed) ==
  \/ Nullish(Prop(parsed, "content"))
  \/ ~IsArray(Prop(Prop(parsed, "content"), "structured"))
  \/ \E i \in 1..Len(Prop(Prop(parsed, "content"), "structured").a) :
       BlockThrows(Prop(Prop(parsed, "content"), "structured").a[i])

\* What one render of Parent puts on the screen: the raw reply, the parts of
\* the structured response, or nothing because the render threw.
Output(kind, text, intro, blocks, rawtext) ==
  [kind |-> kind, text |-> text, intro |-> intro, blocks |-> blocks, rawtext |-> rawtext]

\* parent.tsx, lines 26-80, for the state resp and the prop text.
Render(resp, text) ==
  IF ~(IsSome(resp) /\ Truthy(Get(resp))) THEN Output("reply", text, "", <<>>, "")
  ELSE IF RenderThrows(Get(resp)) THEN Output("TypeError", <<>>, "", <<>>, "")
  ELSE LET structured == Prop(Prop(Get(resp), "content"), "structured").a
       IN Output("response", <<>>,
                 IF Truthy(Prop(Get(resp), "intro_message"))
                 THEN Shown(Prop(Get(resp), "intro_message")) ELSE "",
                 [i \in 1..Len(structured) |-> RenderBlock(structured[i])],
                 IF Truthy(Prop(Prop(Get(resp), "content"), "rawtext"))
                 THEN Shown(Prop(Prop(Get(resp), "content"), "rawtext")) ELSE "")

\* The screen before the first render.
NoOutput == Output("none", <<>>, "", <<>>, "")

\* ------------------------------------------------------------------ replies
\* Values of the shape of @type-resp.ts; layouts lists the layout members a
\* component carries, which the declared type restricts and a reply need not.
StructuredResponse(intro_message, structured, rawtext) ==
  JObj(<<Member("intro_message", JStr(intro_message)),
         Member("content", JObj(<<Member("structured", JArr(structured)),
                                  Member("rawtext", JStr(rawtext))>>))>>)
Block(message, components) ==
  JObj(<<Member("message", JStr(message)), Member("components", JArr(components))>>)
Component(component_type, layouts) ==
  JObj(<<Member("component_type", JStr(component_type))>> \o layouts)
Column(key, label) == JObj(<<Member("key", JStr(key)), Member("label", JStr(label))>>)
TableLayout(columns, rows) ==
  Member("table_layout", JObj(<<Member("columns", JArr(columns)), Member("rows", JArr(rows))>>))
ListLayout(texts) ==
  Member("list_layout",
         JObj(<<Member("items", JArr([n \in 1..Len(texts) |-> JObj(<<Member("text", JStr(texts[n]))>>)]))>>))
TextLayout(content) == Member("text_layout", JObj(<<Member("content", JStr(content))>>))
CardsLayout(cards) == Member("cards_layout", JObj(<<Member("cards", JArr(cards))>>))
Card(title, subtitle, label, value) ==
  JObj(<<Member("title", JStr(title)), Member("subtitle", JStr(subtitle)),
         Member("meta", JArr(<<JObj(<<Member("label", JStr(label)),
                                      Member("value", JStr(value))>>)>>))>>)

\* The columns of the tables of the replies below.
TeacherColumns == <<Column("name", "Name"), Column("room", "Room")>>

\* Rows of a result: one with a key that is no declared column and its keys
\* in another order than the columns, one without the key room, one whose
\* room is null.
TeacherRows ==
  << JObj(<<Member("room", JStr("B12")), Member("id", JStr("7")), Member("name", JStr("Alami"))>>),
     JObj(<<Member("name", JStr("Idrissi"))>>),
     JObj(<<Member("name", JStr("Tazi")), Member("room", JNull)>>) >>

\* Components: tables without and with rows, a list, a text, cards, a table
\* that carries a text layout as well, a text that carries only a list
\* layout, a type the renderer does not know, and a list without layout.
ComponentInputs ==
  [ emptyTable |-> Component("table", <<TableLayout(TeacherColumns, <<>>)>>),
    table |-> Component("table", <<TableLayout(TeacherColumns, TeacherRows)>>),
    list |-> Component("list", <<ListLayout(<<"Monday", "Friday">>)>>),
    text |-> Component("text", <<TextLayout("No course on Sunday")>>),
    cards |-> Component("cards", <<CardsLayout(<<Card("Alami", "Mathematics", "head", "Pr. Alami")>>)>>),
    twoLayouts |-> Component("table", <<TextLayout("see the table"),
                                        TableLayout(<<Column("name", "Name")>>, <<>>)>>),
    otherLayout |-> Component("text", <<ListLayout(<<"Monday">>)>>),
    unknownType |-> Component("chart", <<TextLayout("a chart")>>),
    noLayout |-> Component("list", <<>>) ]

\* botResponses['default'] (lines 42-43) and the text of line 22, abridged.
DefaultText == "Thank you for your question. I'm processing your request."
WelcomeText == "Hello! Welcome to the University Assistant."

\* JSON.stringify({ intro_message: botResponses['default'] }), lines 66 and 70.
DefaultReply == Stringify(JObj(<<Member("intro_message", JStr(DefaultText))>>))

\* The content of the message of lines 18-31.
WelcomeReply == Stringify(StructuredResponse(WelcomeText, <<>>, ""))

\* Structured responses a reply may carry.
ResponseValues ==
  { StructuredResponse(WelcomeText, <<>>, ""),
    StructuredResponse("Teachers", <<Block("", <<ComponentInputs.emptyTable>>)>>, ""),
    StructuredResponse("", <<Block("Mathematics",
                                   <<ComponentInputs.emptyTable, ComponentInputs.table,
                                     ComponentInputs.otherLayout, ComponentInputs.text>>)>>,
                       "3 rows"),
    StructuredResponse("", <<Block("", <<ComponentInputs.text>>)>>, ""),
    StructuredResponse("", <<>>, "No answer"),
    StructuredResponse("Week", <<Block("", <<ComponentInputs.unknownType, ComponentInputs.list>>),
                                 Block("Staff", <<ComponentInputs.twoLayouts, ComponentInputs.cards,
                                                  ComponentInputs.noLayout>>)>>, "") }

\* The reply prop of Parent: a structured response as the backend serialises
\* it, the same between white space, the two strings of ChatInterface, a JSON
\* array, an object whose content has no structured member, plain text, and
\* two strings that start like JSON and are not.
ReplyInputs ==
  {Stringify(v) : v \in ResponseValues}
    \cup { <<Space>> \o WelcomeReply \o <<Space>>,
           DefaultReply,
           Stringify(JArr(<<>>)),
           Stringify(JObj(<<Member("intro_message", JStr("Teachers")),
                            Member("content", JObj(<<Member("rawtext", JStr("none"))>>))>>)),
           <<Word("Room"), Space, Word("B12")>>,
           <<Punct("{"), Str("intro_message"), Punct(":"), Str("Teachers"), Punct(",")>>,
           <<Punct("["), Word("draft"), Punct("]"), Space, Word("Room"), Space, Word("B12")>> }

\* ------------------------------------------------------------------ invocations
\* One invocation of startExtraction: the closure's jobId, where it stands
\* (phase, pc) and the exception the catch block has received.
NoThrown == [responseError |-> NoValue, message |-> NoValue]

Proc(jobId, phase, pc) ==
  [jobId |-> jobId, phase |-> phase, pc |-> pc, thrown |-> NoThrown]

\* Phases in which the invocation is suspended or finished.
Parked == {"await", "done"}

\* No handler is executing.
Idle == \A p \in 1..Len(procs) : procs[p].phase \in Parked

\* ------------------------------------------------------------------ state
\* Lines 161-191: the state after the first render.
Init ==
  /\ jobs = SeedJobs
  /\ activeJob = None
  /\ extractionSteps = <<>>
  /\ isDragging = FALSE
  /\ procs = <<>>
  /\ timers = 0
  /\ clock = 0
  /\ messages = <<>>
  /\ isTyping = FALSE
  /\ chats = <<>>
  /\ reply = <<>>
  /\ response = None
  /\ output = NoOutput
  /\ parentPhase = "unmounted"

\* Time passes between two handlers; Date.now() has millisecond resolution,
\* so two handlers may also read the same value.  The reading is used only
\* to build ids, which are compared for equality: the clock moves on by one
\* unit, only past a reading that an id holds, and only while a further
\* submission can read it.
Tick ==
  /\ Idle
  /\ Len(procs) < MaxSubmits
  /\ \E i \in 1..Len(jobs) : jobs[i].id = JobId(clock)
  /\ clock' = clock + 1
  /\ UNCHANGED <<jobs, activeJob, extractionSteps, isDragging, procs, timers,
               chatVars, parentVars>>

\* Lines 204-233: the new record is prepended, shown in the panel, and the
\* steps are reset; the invocation goes on with the try block.
startExtraction(filesCount) ==
  /\ jobs' = <<NewJob(JobId(clock), filesCount)>> \o jobs
  /\ activeJob' = Some(NewJob(JobId(clock), filesCount))
  /\ extractionSteps' = InitialSteps
  /\ procs' = Append(procs, Proc(JobId(clock), "try", 1))
  /\ UNCHANGED <<timers, clock,
               chatVars, parentVars>>

\* Lines 394-401.
handleFolderChange ==
  /\ Idle
  /\ \E filesCount \in FileCounts :
       IF filesCount = 0
       THEN UNCHANGED vars
       ELSE /\ Len(procs) < MaxSubmits
            /\ startExtraction(filesCount)
            /\ UNCHANGED isDragging

\* Lines 403-406.
handleDragOver ==
  /\ Idle
  /\ isDragging' = TRUE
  /\ UNCHANGED <<jobs, activeJob, extractionSteps, procs, timers, clock,
               chatVars, parentVars>>

\* Lines 408-411.
handleDragLeave ==
  /\ Idle
  /\ isDragging' = FALSE
  /\ UNCHANGED <<jobs, activeJob, extractionSteps, procs, timers, clock,
               chatVars, parentVars>>

\* Lines 413-421.
handleDrop ==
  /\ Idle
  /\ isDragging' = FALSE
  /\ \E filesCount \in FileCounts :
       IF filesCount = 0
       THEN UNCHANGED <<jobs, activeJob, extractionSteps, procs, timers, clock,
               chatVars, parentVars>>
       ELSE /\ Len(procs) < MaxSubmits
            /\ startExtraction(filesCount)

\* One update of the try block, applied to the state the previous one left.
ApplyOp(op, jobId) ==
  IF op.kind = "step"
  THEN /\ extractionSteps' = updateStepStatus(extractionSteps, op.stepIndex, op.status)
       /\ UNCHANGED <<jobs, activeJob>>
  ELSE /\ jobs' = updateJobs(jobs, jobId, op.status, op.progress, NoUpdates)
       /\ activeJob' = updateActiveJob(activeJob, jobId, op.status, op.progress, NoUpdates)
       /\ UNCHANGED extractionSteps

\* Lines 237-264: the next update before the request; after the last one the
\* request is issued and the invocation is suspended.
TryStep(p) ==
  /\ procs[p].phase = "try"
  /\ ApplyOp(TryOps[procs[p].pc], procs[p].jobId)
  /\ procs' = [procs EXCEPT ![p] =
                 IF procs[p].pc = Len(TryOps)
                 THEN Proc(procs[p].jobId, "await", 0)
                 ELSE Proc(procs[p].jobId, "try", procs[p].pc + 1)]
  /\ UNCHANGED <<isDragging, timers, clock,
               chatVars, parentVars>>

\* Line 264: the request returns a response.
RequestResolves(p) ==
  /\ Idle
  /\ procs[p].phase = "await"
  /\ procs' = [procs EXCEPT ![p] = Proc(procs[p].jobId, "resume", 1)]
  /\ UNCHANGED <<jobs, activeJob, extractionSteps, isDragging, timers, clock,
               chatVars, parentVars>>

\* Line 264: the request is rejected (network error, HTTP error status, or
\* the 300000 ms timeout); control passes to the catch block.
RequestRejects(p) ==
  /\ Idle
  /\ procs[p].phase = "await"
  /\ \E thrown \in RejectionInputs :
       procs' = [procs EXCEPT ![p] =
                   [Proc(procs[p].jobId, "catch", 0) EXCEPT !.thrown = thrown]]
  /\ UNCHANGED <<jobs, activeJob, extractionSteps, isDragging, timers, clock,
               chatVars, parentVars>>

\* Lines 274-276.
ResumeStep(p) ==
  /\ procs[p].phase = "resume"
  /\ ApplyOp(ResumeOps[procs[p].pc], procs[p].jobId)
  /\ procs' = [procs EXCEPT ![p] =
                 IF procs[p].pc = Len(ResumeOps)
                 THEN Proc(procs[p].jobId, "read", 0)
                 ELSE Proc(procs[p].jobId, "resume", procs[p].pc + 1)]
  /\ UNCHANGED <<isDragging, timers, clock,
               chatVars, parentVars>>

\* Lines 271 and 279-294.  response.data is an object, or it is null or
\* undefined and data.results throws a TypeError that the catch block receives.
\* The sums of lines 282-294 are locals of the invocation: they reach the
\* component's state at lines 300-313, where Settle computes them.
ReadResults(p) ==
  /\ procs[p].phase = "read"
  /\ \/ procs' = [procs EXCEPT ![p] = Proc(procs[p].jobId, "complete", 0)]
     \/ procs' = [procs EXCEPT ![p] =
                    [Proc(procs[p].jobId, "catch", 0) EXCEPT !.thrown = DataTypeError]]
  /\ UNCHANGED <<jobs, activeJob, extractionSteps, isDragging, timers, clock,
               chatVars, parentVars>>

\* Line 297.
CompleteLastStep(p) ==
  /\ procs[p].phase = "complete"
  /\ extractionSteps' = updateStepStatus(extractionSteps, 5, "completed")
  /\ procs' = [procs EXCEPT ![p].phase = "settle"]
  /\ UNCHANGED <<jobs, activeJob, isDragging, timers, clock,
               chatVars, parentVars>>

\* Lines 299-315 for the payload data: the job's final update.
SettleJob(jobId, data) ==
  /\ jobs' = updateJobs(jobs, jobId, FinalStatus(data.success), 100,
                        FinalUpdates(data.success, data.error, Totals(data)))
  /\ activeJob' = updateActiveJob(activeJob, jobId, FinalStatus(data.success), 100,
                        FinalUpdates(data.success, data.error, Totals(data)))

\* Lines 299-320: the final update, for the payload the request returned, and
\* the timer that clears the panel.
Settle(p) ==
  /\ procs[p].phase = "settle"
  /\ \E data \in ResponseInputs : SettleJob(procs[p].jobId, data)
  /\ timers' = timers + 1
  /\ procs' = [procs EXCEPT ![p] = Proc(procs[p].jobId, "done", 0)]
  /\ UNCHANGED <<extractionSteps, isDragging, clock,
               chatVars, parentVars>>

\* Lines 326-332.
CatchMarkStep(p) ==
  /\ procs[p].phase = "catch"
  /\ extractionSteps' = MarkActiveError(extractionSteps)
  /\ procs' = [procs EXCEPT ![p].phase = "fail"]
  /\ UNCHANGED <<jobs, activeJob, isDragging, timers, clock,
               chatVars, parentVars>>

\* Lines 334-345.
CatchFail(p) ==
  /\ procs[p].phase = "fail"
  /\ jobs' = updateJobs(jobs, procs[p].jobId, "failed", 100, CatchUpdates(procs[p].thrown))
  /\ activeJob' = updateActiveJob(activeJob, procs[p].jobId, "failed", 100,
                                  CatchUpdates(procs[p].thrown))
  /\ timers' = timers + 1
  /\ procs' = [procs EXCEPT ![p] = Proc(procs[p].jobId, "done", 0)]
  /\ UNCHANGED <<extractionSteps, isDragging, clock,
               chatVars, parentVars>>

\* Lines 317-320 and 342-345: a 3-second timer fires.
TimerFires ==
  /\ Idle
  /\ timers > 0
  /\ timers' = timers - 1
  /\ activeJob' = None
  /\ extractionSteps' = <<>>
  /\ UNCHANGED <<jobs, isDragging, procs, clock,
               chatVars, parentVars>>

\* Lines 423-427: the Retry button of a failed job shows a toast and changes
\* no state of the component.
retryJob ==
  /\ Idle
  /\ \E i \in 1..Len(jobs) : jobs[i].status = "failed"
  /\ UNCHANGED vars

Next ==
  \/ Tick
  \/ handleFolderChange
  \/ handleDragOver
  \/ handleDragLeave
  \/ handleDrop
  \/ \E p \in 1..Len(procs) : TryStep(p)
  \/ \E p \in 1..Len(procs) : RequestResolves(p)
  \/ \E p \in 1..Len(procs) : RequestRejects(p)
  \/ \E p \in 1..Len(procs) : ResumeStep(p)
  \/ \E p \in 1..Len(procs) : ReadResults(p)
  \/ \E p \in 1..Len(procs) : CompleteLastStep(p)
  \/ \E p \in 1..Len(procs) : Settle(p)
  \/ \E p \in 1..Len(procs) : CatchMarkStep(p)
  \/ \E p \in 1..Len(procs) : CatchFail(p)
  \/ TimerFires
  \/ retryJob

Spec == Init /\ [][Next]_vars

\* The runs in which one job runs at a time: files are selected or dropped
\* only when no invocation of startExtraction is unfinished.
SerialNext ==
  \/ Tick
  \/ (\A q \in 1..Len(procs) : procs[q].phase = "done") /\ handleFolderChange
  \/ handleDragOver
  \/ handleDragLeave
  \/ (\A q \in 1..Len(procs) : procs[q].phase = "done") /\ handleDrop
  \/ \E p \in 1..Len(procs) : TryStep(p)
  \/ \E p \in 1..Len(procs) : RequestResolves(p)
  \/ \E p \in 1..Len(procs) : RequestRejects(p)
  \/ \E p \in 1..Len(procs) : ResumeStep(p)
  \/ \E p \in 1..Len(procs) : ReadResults(p)
  \/ \E p \in 1..Len(procs) : CompleteLastStep(p)
  \/ \E p \in 1..Len(procs) : Settle(p)
  \/ \E p \in 1..Len(procs) : CatchMarkStep(p)
  \/ \E p \in 1..Len(procs) : CatchFail(p)
  \/ TimerFires
  \/ retryJob

SerialSpec == Init /\ [][SerialNext]_vars

\* A step of the p-th invocation: the return or rejection of its request, or
\* the next statement of its handler.
ProcStep(p) ==
  \/ RequestResolves(p)
  \/ RequestRejects(p)
  \/ TryStep(p)
  \/ ResumeStep(p)
  \/ ReadResults(p)
  \/ CompleteLastStep(p)
  \/ Settle(p)
  \/ CatchMarkStep(p)
  \/ CatchFail(p)

\* The request of line 264 carries a timeout, so it returns or is rejected,
\* and a handler that has started runs to its next await or to its end: as
\* long as an invocation is unfinished, some invocation moves.
FairSpec == Spec /\ WF_vars(\E p \in 1..Len(procs) : ProcStep(p))

\* ------------------------------------------------------------------ ChatInterface
\* Date.now() counts milliseconds from 1970: no reading is as small as the id
\* "1" of the welcome message.  A reading is Epoch + clock.
Epoch == 1000

\* Lines 11-16; the id is the number whose decimal digits the string holds,
\* timestamp is shown and never read.
Message(id, content, sender) == [id |-> id, content |-> content, sender |-> sender]

\* Lines 18-31.
initialMessages == <<Message(1, WelcomeReply, "bot")>>

\* What is typed into ChatInput, and the action of a QuickActions button.
Questions == {<<Word("Who"), Space, Word("teaches"), Space, Word("Mathematics?")>>}
QuickActionInputs == {<<Word("admission")>>}

\* What the request of line 65 comes to: it is rejected, or it resolves with
\* a response whose data is missing, or whose data carries no reply, an empty
\* reply, a plain text or a structured response.
ChatOutcome(rejected, hasData, text) == [rejected |-> rejected, hasData |-> hasData, reply |-> text]
NoOutcome == ChatOutcome(FALSE, FALSE, None)
ChatOutcomes ==
  { ChatOutcome(TRUE, FALSE, None),
    ChatOutcome(FALSE, FALSE, None),
    ChatOutcome(FALSE, TRUE, None),
    ChatOutcome(FALSE, TRUE, Some(<<>>)),
    ChatOutcome(FALSE, TRUE, Some(<<Word("Room"), Space, Word("B12")>>)),
    ChatOutcome(FALSE, TRUE,
              Some(Stringify(StructuredResponse("", <<Block("", <<ComponentInputs.text>>)>>, "")))) }

\* Lines 63-71: a rejection and the TypeError of response.data.reply on a
\* missing data are caught and logged, then line 70 returns; a reply that is
\* absent or empty is falsy at line 66.
getBotResponse(outcome) ==
  IF outcome.rejected \/ ~outcome.hasData THEN DefaultReply
  ELSE IF IsSome(outcome.reply) /\ Get(outcome.reply) # <<>> THEN Get(outcome.reply)
  ELSE DefaultReply

\* The updater of lines 81 and 90 putting the message first.
PrependMessage(prev, message) == <<message>> \o prev

\* (prev) => [...prev, message], lines 81 and 90.
AppendMessage(prev, message) == Append(prev, message)

\* One invocation of handleSendMessage: the closure's userMessage, the id
\* computed at line 85, where it stands (await: the request is pending;
\* resume: the request has settled and the handler is about to go on; done)
\* and what the request came to.
Chat(userMessage, botId, phase, outcome) ==
  [userMessage |-> userMessage, botId |-> botId, phase |-> phase, outcome |-> outcome]

\* No handler of ChatInterface is executing.
ChatIdle == \A c \in 1..Len(chats) : chats[c].phase # "resume"

\* Lines 51-53: the effect of the first render; React runs it before it
\* handles any event.
InstallWelcome ==
  /\ messages = <<>>
  /\ messages' = initialMessages
  /\ UNCHANGED <<isTyping, chats, extractorVars, clock, parentVars>>

\* Time passes between two handlers.  Readings are used only to build ids:
\* the clock moves on by one unit, only while an id holds a reading that is
\* not yet behind, and only while a further question can read it.
ChatTick ==
  /\ ChatIdle
  /\ Len(chats) < MaxSends
  /\ \E c \in 1..Len(chats) : chats[c].botId >= Epoch + clock
  /\ clock' = clock + 1
  /\ UNCHANGED <<chatVars, extractorVars, parentVars>>

\* Lines 74-86, up to the await: the question is appended, the indicator is
\* switched on, and the id of the answer is computed from a second reading of
\* the clock, which may be one millisecond later than the first.
SendMessage(content) ==
  /\ ChatIdle
  /\ messages # <<>>
  /\ Len(chats) < MaxSends
  /\ messages' = AppendMessage(messages, Message(Epoch + clock, content, "user"))
  /\ isTyping' = TRUE
  /\ \E later \in {0, 1} :
       /\ clock' = clock + later
       /\ chats' = Append(chats, Chat(Message(Epoch + clock, content, "user"),
                                      Epoch + clock + later + 1, "await", NoOutcome))
  /\ UNCHANGED <<extractorVars, parentVars>>

\* Lines 73-93, called by ChatInput.
handleSendMessage == \E content \in Questions : SendMessage(content)

\* Lines 95-97.
handleQuickAction == \E action \in QuickActionInputs : SendMessage(action)

\* Line 65: the request settles.
ChatResponds(c) ==
  /\ ChatIdle
  /\ chats[c].phase = "await"
  /\ \E outcome \in ChatOutcomes :
       chats' = [chats EXCEPT ![c] = Chat(chats[c].userMessage, chats[c].botId, "resume", outcome)]
  /\ UNCHANGED <<messages, isTyping, extractorVars, clock, parentVars>>

\* Lines 84-91, from the await on: the answer is appended and the indicator
\* is switched off.
ChatResume(c) ==
  /\ chats[c].phase = "resume"
  /\ messages' = AppendMessage(messages,
                               Message(chats[c].botId, getBotResponse(chats[c].outcome), "bot"))
  /\ isTyping' = FALSE
  /\ chats' = [chats EXCEPT ![c] = Chat(chats[c].userMessage, chats[c].botId, "done", NoOutcome)]
  /\ UNCHANGED <<extractorVars, clock, parentVars>>

ChatNext ==
  \/ InstallWelcome
  \/ ChatTick
  \/ handleSendMessage
  \/ handleQuickAction
  \/ \E c \in 1..Len(chats) : ChatResponds(c)
  \/ \E c \in 1..Len(chats) : ChatResume(c)

ChatSpec == Init /\ [][ChatNext]_vars

\* Once the request of line 65 has settled, the handler goes on; the request
\* itself carries no timeout, so nothing makes it settle.
ChatFairSpec == ChatSpec /\ WF_vars(\E c \in 1..Len(chats) : ChatResume(c))

\* ------------------------------------------------------------------ Parent
\* One instance of Parent (parent.tsx): its prop reply, its state response,
\* what its last render put on the screen, and where it stands: not mounted,
\* rendered with the effect of lines 13-24 still to run, settled, or taken
\* down because a render threw (no error boundary surrounds it).

\* The first render: response is null (line 11).
ParentMount ==
  /\ parentPhase = "unmounted"
  /\ \E text \in ReplyInputs :
       /\ reply' = text
       /\ output' = Render(None, text)
  /\ response' = None
  /\ parentPhase' = "effect"
  /\ UNCHANGED <<extractorVars, clock, chatVars>>

\* Lines 14-23: the state the effect leaves, for the prop text and the state
\* prev; the catch block of line 18 sets nothing.
EffectResponse(text, prev) ==
  IF TrimStartsWith(text, "{") \/ TrimStartsWith(text, "[")
  THEN IF JSONParse(text).ok THEN Some(JSONParse(text).val) ELSE prev
  ELSE None

\* Lines 13-24 and the render that follows.
ParentEffect ==
  /\ parentPhase = "effect"
  /\ response' = EffectResponse(reply, response)
  /\ output' = Render(response', reply)
  /\ parentPhase' = IF output'.kind = "TypeError" THEN "crashed" ELSE "settled"
  /\ UNCHANGED <<reply, extractorVars, clock, chatVars>>

\* The parent component renders Parent with another reply: the render uses
\* the state as it is, then the effect runs again (line 24).
ParentUpdate ==
  /\ parentPhase = "settled"
  /\ \E text \in ReplyInputs \ {reply} :
       /\ reply' = text
       /\ output' = Render(response, text)
  /\ parentPhase' = "effect"
  /\ UNCHANGED <<response, extractorVars, clock, chatVars>>

ParentNext == ParentMount \/ ParentEffect \/ ParentUpdate

ParentSpec == Init /\ [][ParentNext]_vars

\* ------------------------------------------------------------------ properties
\* The list only grows at its head, so a record keeps its position counted
\* from the tail: FromTail(js, 1) is the oldest record.
FromTail(js, k) == js[Len(js) + 1 - k]

\* The fields of a record that a claim calls its outcome.
Outcome(job) ==
  << job.status, job.progress, job.rowsExtracted, job.rowsInserted,
     job.tablesAffected, job.error >>

\* The records created by startExtraction (the two seed records come first).
Submitted == (Len(SeedJobs) + 1)..(Len(SeedJobs) + MaxSubmits)

\* The invocations of startExtraction that have not finished.
Unfinished == {p \in 1..Len(procs) : procs[p].phase # "done"}

\* C1: the progress of every job stays within 0..100 and never decreases from
\* one state to the next.
C1_ProgressMonotone ==
  [][\A k \in 1..Len(jobs) :
       /\ FromTail(jobs', k).progress \in 0..100
       /\ FromTail(jobs', k).progress >= FromTail(jobs, k).progress]_vars

\* C2: every job created by startExtraction eventually has a terminal status,
\* whether the request returns a success or a failure payload, or is rejected.
C2_EventuallyTerminal ==
  \A k \in Submitted :
    (Len(jobs) >= k) ~> (Len(jobs) >= k /\ FromTail(jobs, k).status \in TerminalStatuses)

C2_Witness ==
  /\ Len(jobs) = Len(SeedJobs) + MaxSubmits
  /\ \E k \in Submitted : FromTail(jobs, k).status = "completed"
  /\ \E k \in Submitted :
       FromTail(jobs, k).status = "failed" /\ FromTail(jobs, k).error = UnknownErrorText

\* C3: once a job is completed or failed, no later step changes its status,
\* progress, counters, tables or error.
C3_TerminalFrozen ==
  [][\A k \in 1..Len(jobs) :
       FromTail(jobs, k).status \in TerminalStatuses
         => Outcome(FromTail(jobs', k)) = Outcome(FromTail(jobs, k))]_vars

\* C4: the step that makes a job failed leaves its progress at the value it
\* had immediately before.
C4_FailureFreezesProgress ==
  [][\A k \in 1..Len(jobs) :
       (FromTail(jobs, k).status # "failed" /\ FromTail(jobs', k).status = "failed")
         => FromTail(jobs', k).progress = FromTail(jobs, k).progress]_vars

\* C5: a job is failed only if zero rows succeeded: no job is failed with
\* rowsInserted > 0.
C5_FailedOnlyWithoutRows ==
  \A i \in 1..Len(jobs) : jobs[i].status = "failed" => jobs[i].rowsInserted = 0

\* C6: the error field of a job is present if and only if its status is failed.
C6_ErrorIffFailed ==
  \A i \in 1..Len(jobs) : (jobs[i].error # NoValue) <=> (jobs[i].status = "failed")

\* C7: no two records of the jobs list have the same id.
C7_UniqueJobIds ==
  \A i, j \in 1..Len(jobs) : i # j => jobs[i].id # jobs[j].id

\* The parsed queries of the successful file results of a payload, each named
\* by the position of its result and its position in that result.
CountedQueries(data) ==
  IF data.results = None THEN {}
  ELSE {rq \in (1..Len(Get(data.results))) \X (1..2) :
          /\ Get(data.results)[rq[1]].success
          /\ Get(data.results)[rq[1]].parsed_queries # None
          /\ rq[2] <= Len(Get(Get(data.results)[rq[1]].parsed_queries))}

QueryAt(data, rq) == Get(Get(data.results)[rq[1]].parsed_queries)[rq[2]]

RECURSIVE SumRows(_, _)
SumRows(data, rqs) ==
  IF rqs = {} THEN 0
  ELSE LET rq == CHOOSE x \in rqs : TRUE
       IN (IF QueryAt(data, rq).values = None THEN 0 ELSE QueryAt(data, rq).values[1])
            + SumRows(data, rqs \ {rq})

ExpectedRows(data) == SumRows(data, CountedQueries(data))
ExpectedTables(data) == {QueryAt(data, rq).table_name : rq \in CountedQueries(data)}

\* C8: when the payload reports success, the final update leaves every record
\* of the invocation's id completed with progress 100, rowsExtracted and
\* rowsInserted equal to the number of value rows of the parsed queries of the
\* successful file results, and tablesAffected listing exactly the distinct
\* table names of those queries, each once.
C8_SuccessTotals ==
  [][\A p \in 1..Len(procs) :
       procs[p].phase = "settle"
         => \A data \in ResponseInputs :
              (data.success /\ SettleJob(procs[p].jobId, data))
                => \A i \in 1..Len(jobs') :
                     jobs'[i].id = procs[p].jobId
                       => /\ jobs'[i].status = "completed"
                          /\ jobs'[i].progress = 100
                          /\ jobs'[i].rowsExtracted = ExpectedRows(data)
                          /\ jobs'[i].rowsInserted = ExpectedRows(data)
                          /\ {jobs'[i].tablesAffected[n] :
                                n \in 1..Len(jobs'[i].tablesAffected)}
                               = ExpectedTables(data)
                          /\ Len(jobs'[i].tablesAffected)
                               = Cardinality(ExpectedTables(data))]_vars

\* The scenario of the 3-row file for table courses.
C8_Witness ==
  \E k \in Submitted :
    /\ Len(jobs) >= k
    /\ FromTail(jobs, k).status = "completed"
    /\ FromTail(jobs, k).progress = 100
    /\ FromTail(jobs, k).rowsExtracted = 3
    /\ FromTail(jobs, k).rowsInserted = 3
    /\ FromTail(jobs, k).tablesAffected = <<"courses">>

\* C9: a submission adds one record at the head of the list, with zero
\* counters and no tables, and until its request is issued every record that
\* existed before stays as it was.
C9_SubmissionFrame ==
  [][/\ Len(procs') > Len(procs)
          => /\ jobs' = <<jobs'[1]>> \o jobs
             /\ jobs'[1].rowsExtracted = 0 /\ jobs'[1].rowsInserted = 0
             /\ jobs'[1].tablesAffected = <<>>
     /\ (\E p \in 1..Len(procs) : procs[p].phase = "try")
          => /\ Tail(jobs') = Tail(jobs)
             /\ jobs'[1].rowsExtracted = 0 /\ jobs'[1].rowsInserted = 0
             /\ jobs'[1].tablesAffected = <<>>]_vars

\* The shape of the step list of one job: completed steps, then at most one
\* step that is active or in error, then pending steps.
StepsShape(steps) ==
  \E m \in 1..(Len(steps) + 1) : \A i \in 1..Len(steps) :
    /\ i < m => steps[i].status = "completed"
    /\ i = m => steps[i].status \in {"pending", "active", "error"}
    /\ i > m => steps[i].status = "pending"

\* C10: while one job runs at a time, the step list keeps the shape above,
\* a step becomes active only from pending and only when it is the first or
\* its predecessor is completed, and a completed step of the running job
\* stays completed (the list is replaced only by the next job's start and
\* emptied only by a timer).
C10_StagesInOrder ==
  [][/\ StepsShape(extractionSteps')
     /\ (Len(procs') = Len(procs) /\ Len(extractionSteps') = Len(extractionSteps))
          => \A i \in 1..Len(extractionSteps) :
               /\ (extractionSteps'[i].status = "active"
                     /\ extractionSteps[i].status # "active")
                    => /\ extractionSteps[i].status = "pending"
                       /\ i = 1 \/ extractionSteps[i - 1].status = "completed"
               /\ extractionSteps[i].status = "completed"
                    => extractionSteps'[i].status = "completed"]_vars

\* One running job whose last stage, verify, is active after the five others.
C10_Witness ==
  /\ Cardinality(Unfinished) = 1
  /\ \E p \in Unfinished : procs[p].phase = "read"
  /\ Len(extractionSteps) = Len(StepIds)
  /\ extractionSteps[6].status = "active"
  /\ \A i \in 1..5 : extractionSteps[i].status = "completed"

\* The place of a status on the path queued, extracting, inserting, terminal.
StatusRank(status) ==
  CASE status = "queued" -> 0
    [] status = "extracting" -> 1
    [] status = "inserting" -> 2
    [] OTHER -> 3

\* C11: the status of a job never moves to an earlier place of the path queued,
\* extracting, inserting, completed or failed, a terminal status is never
\* exchanged for the other, a job becomes completed only from inserting, and it
\* becomes inserting only when the transform stage is shown as completed.
C11_StatusForwardOnly ==
  [][\A k \in 1..Len(jobs) :
       /\ StatusRank(FromTail(jobs', k).status) >= StatusRank(FromTail(jobs, k).status)
       /\ FromTail(jobs, k).status \in TerminalStatuses
            => FromTail(jobs', k).status = FromTail(jobs, k).status
       /\ (FromTail(jobs', k).status = "completed" /\ FromTail(jobs, k).status # "completed")
            => FromTail(jobs, k).status = "inserting"
       /\ (FromTail(jobs', k).status = "inserting" /\ FromTail(jobs, k).status # "inserting")
            => /\ Len(extractionSteps') = Len(StepIds)
               /\ extractionSteps'[4].status = "completed"]_vars

\* The record and the invocation of the most recent submission.
LatestJob == FromTail(jobs, Len(SeedJobs) + Len(procs))

\* C12: while the most recently submitted job is not terminal, the panel shows
\* that job, and a step in which its own invocation does not move (a stage
\* update, the completion or the failure of an earlier job, or a timer)
\* changes neither the panel nor the shown steps.
C12_ConcurrentJobsIsolated ==
  [][(Len(procs) > 0 /\ LatestJob.status \notin TerminalStatuses)
       => /\ activeJob = Some(LatestJob)
          /\ (Len(procs') = Len(procs) /\ procs'[Len(procs)] = procs[Len(procs)])
               => (activeJob' = activeJob /\ extractionSteps' = extractionSteps)]_vars

\* ------------------------------------------------------------------ properties of Parent
LayoutNames == {"table_layout", "cards_layout", "list_layout", "text_layout"}

\* The layout field and the renderer that belong to a component type.
LayoutFieldOf(type) ==
  CASE type = JStr("table") -> "table_layout"
    [] type = JStr("cards") -> "cards_layout"
    [] type = JStr("list") -> "list_layout"
    [] type = JStr("text") -> "text_layout"
    [] OTHER -> "none"

RendererOf(type) ==
  CASE type = JStr("table") -> "TableComponent"
    [] type = JStr("cards") -> "CardsComponent"
    [] type = JStr("list") -> "ListComponent"
    [] type = JStr("text") -> "TextComponent"
    [] OTHER -> "null"

\* The blocks of a parsed response and the components of a block.
BlocksOf(parsed) == Prop(Prop(parsed, "content"), "structured").a
ComponentsOf(block) == Prop(block, "components").a

\* C13: every component of the structured response that Parent holds has
\* exactly one layout field that is not null, the one of its component_type.
C13_ExactlyOneLayout ==
  IsSome(response)
    => \A i \in 1..Len(BlocksOf(Get(response))) :
         \A j \in 1..Len(ComponentsOf(BlocksOf(Get(response))[i])) :
           LET comp == ComponentsOf(BlocksOf(Get(response))[i])[j]
           IN {f \in LayoutNames : ~Nullish(Prop(comp, f))}
                = {LayoutFieldOf(Prop(comp, "component_type"))}

\* C16: what Parent shows for a structured response has one entry per block
\* and, in each block, one entry per component, in the same order; the entry
\* of a component is the renderer of its component_type applied to the layout
\* field of that type, whatever other layout fields it carries, and is empty
\* when that field is absent or the type is unknown.
C16_RendererByType ==
  output.kind = "response"
    => /\ Len(output.blocks) = Len(BlocksOf(Get(response)))
       /\ \A i \in 1..Len(output.blocks) :
            LET comps == ComponentsOf(BlocksOf(Get(response))[i])
                shown == output.blocks[i].children
            IN /\ Len(shown) = Len(comps)
               /\ \A j \in 1..Len(comps) :
                    LET type == Prop(comps[j], "component_type")
                        layout == Prop(comps[j], LayoutFieldOf(type))
                    IN IF RendererOf(type) # "null" /\ ~Nullish(layout)
                       THEN /\ shown[j].renderer = RendererOf(type)
                            /\ shown[j].layout = layout
                       ELSE shown[j] = NullElement

\* A response of two blocks is shown: an unknown type shows nothing and the
\* list after it is shown; a table that also carries a text layout is shown
\* as a table, and a list without layout shows nothing.
C16_Witness ==
  /\ output.kind = "response"
  /\ Len(output.blocks) = 2
  /\ output.blocks[1].children[1] = NullElement
  /\ output.blocks[1].children[2].renderer = "ListComponent"
  /\ output.blocks[2].children[1].renderer = "TableComponent"
  /\ ~Nullish(Prop(ComponentsOf(BlocksOf(Get(response))[2])[1], "text_layout"))
  /\ output.blocks[2].children[2].renderer = "CardsComponent"
  /\ output.blocks[2].children[3] = NullElement

\* The tables on the screen.
ShownTables ==
  {ij \in (1..Len(output.blocks)) \X (1..4) :
     /\ ij[2] <= Len(output.blocks[ij[1]].children)
     /\ output.blocks[ij[1]].children[ij[2]].renderer = "TableComponent"}

\* C17: a table that is shown has one header cell per declared column, with
\* the column's label, and one body row per row of the layout (none when
\* there are none), each with one cell per declared column, in column order,
\* holding the row's value under that column's key.
C17_TableRows ==
  output.kind # "none"
    => \A ij \in ShownTables :
         LET el == output.blocks[ij[1]].children[ij[2]]
             columns == Prop(el.layout, "columns").a
             rows == Prop(el.layout, "rows").a
         IN /\ Len(el.dom.head) = Len(columns)
            /\ \A c \in 1..Len(columns) : el.dom.head[c] = Prop(columns[c], "label").s
            /\ Len(el.dom.body) = Len(rows)
            /\ \A r \in 1..Len(rows) :
                 /\ Len(el.dom.body[r]) = Len(columns)
                 /\ \A c \in 1..Len(columns) :
                      el.dom.body[r][c]
                        = (IF \E m \in 1..Len(rows[r].a) :
                                 /\ rows[r].a[m].key = Prop(columns[c], "key").s
                                 /\ rows[r].a[m].val.k = "string"
                           THEN (CHOOSE v \in {rows[r].a[m].val.s : m \in
                                     {m \in 1..Len(rows[r].a) :
                                        rows[r].a[m].key = Prop(columns[c], "key").s}} : TRUE)
                           ELSE "")

\* A table of two columns without rows and a table of three rows, one of
\* which has a key that is no column, are on the screen.
C17_Witness ==
  /\ output.kind = "response"
  /\ \E ij \in ShownTables :
       LET el == output.blocks[ij[1]].children[ij[2]]
       IN Prop(el.layout, "rows").a = <<>> /\ Len(el.dom.head) = 2 /\ el.dom.body = <<>>
  /\ \E ij \in ShownTables :
       LET el == output.blocks[ij[1]].children[ij[2]]
       IN /\ Len(Prop(el.layout, "rows").a) = 3
          /\ Len(Prop(el.layout, "rows").a[1].a) = 3
          /\ el.dom.body[1] = <<"Alami", "B12">>

\* C19: once the effect has run, Parent shows what its current reply is: the
\* parsed value of a reply that starts (after trimming) with "{" or "[" and
\* parses, and the raw reply otherwise, whatever reply it had before.
C19_ShowsCurrentReply ==
  parentPhase = "settled"
    => IF (TrimStartsWith(reply, "{") \/ TrimStartsWith(reply, "[")) /\ JSONParse(reply).ok
       THEN response = Some(JSONParse(reply).val)
       ELSE output.kind = "reply" /\ output.text = reply

\* ------------------------------------------------------------------ properties of ChatInterface
\* A request that failed: it was rejected, or its response carries no reply.
FailedOutcome(outcome) ==
  \/ outcome.rejected
  \/ ~outcome.hasData
  \/ outcome.reply = None
  \/ outcome.reply = Some(<<>>)

\* A string that is a structured response: a JSON object with a string
\* intro_message and a content holding a sequence structured and a string
\* rawtext.
WellFormedResponse(text) ==
  /\ JSONParse(text).ok
  /\ JSONParse(text).val.k = "object"
  /\ Prop(JSONParse(text).val, "intro_message").k = "string"
  /\ Prop(JSONParse(text).val, "content").k = "object"
  /\ Prop(Prop(JSONParse(text).val, "content"), "structured").k = "array"
  /\ Prop(Prop(JSONParse(text).val, "content"), "rawtext").k = "string"

\* The message at the end of the list.
LastMessage(list) == list[Len(list)]

\* C14: the bot message appended after a failed request has a content that
\* is a well-formed structured response, which Parent, once its effect has
\* parsed it, renders without a TypeError.
C14_FailureWellFormed ==
  [][\A c \in 1..Len(chats) :
       (chats[c].phase = "resume" /\ FailedOutcome(chats[c].outcome))
         => /\ LastMessage(messages').sender = "bot"
            /\ WellFormedResponse(LastMessage(messages').content)
            /\ Render(EffectResponse(LastMessage(messages').content, None),
                      LastMessage(messages').content).kind = "response"]_vars

\* The messages of the bot, the welcome message excepted, and the questions
\* that have their answer.
BotAnswers == {i \in 2..Len(messages) : messages[i].sender = "bot"}
Answered == {c \in 1..Len(chats) : chats[c].phase = "done"}

\* C15: every question sent is eventually answered, and at any time the list
\* holds exactly one bot message for each answered question and none for the
\* others.
C15_EveryQuestionAnswered ==
  /\ [](Cardinality(BotAnswers) = Cardinality(Answered))
  /\ \A c \in 1..MaxSends :
       (Len(chats) >= c) ~> (Len(chats) >= c /\ chats[c].phase = "done")

\* C18: whenever no handler is executing, the typing indicator is on if and
\* only if some question sent has not yet received its bot message.
C18_TypingIffOutstanding ==
  ChatIdle => (isTyping <=> \E c \in 1..Len(chats) : chats[c].phase # "done")

\* C20: once the welcome message is installed, every step keeps the messages
\* of the list as they are and where they are; a question is appended at the
\* end when it is sent, and the answer to a question is appended at the end,
\* after the question it answers.
C20_AppendOnly ==
  [][messages # <<>>
       => /\ Len(messages') >= Len(messages)
          /\ SubSeq(messages', 1, Len(messages)) = messages
          /\ Len(chats') > Len(chats)
               => /\ messages' = Append(messages, chats'[Len(chats')].userMessage)
                  /\ chats'[Len(chats')].userMessage.sender = "user"
          /\ \A c \in 1..Len(chats) :
               chats[c].phase = "resume"
                 => /\ Len(messages') = Len(messages) + 1
                    /\ LastMessage(messages').sender = "bot"
                    /\ LastMessage(messages').id = chats[c].botId
                    /\ \E i \in 1..Len(messages) : messages[i] = chats[c].userMessage]_vars

\* Two questions were in flight together and the second was answered first:
\* the list holds the welcome message, the two questions in the order they
\* were sent, then the answer to the second and the answer to the first.
C20_Witness ==
  /\ Len(chats) = 2 /\ Len(messages) = 5
  /\ chats[1].phase = "done" /\ chats[2].phase = "done"
  /\ messages[1] = initialMessages[1]
  /\ messages[2] = chats[1].userMessage
  /\ messages[3] = chats[2].userMessage
  /\ messages[4].sender = "bot" /\ messages[4].id = chats[2].botId
  /\ messages[5].sender = "bot" /\ messages[5].id = chats[1].botId
  /\ chats[1].botId # chats[2].botId

\* C21: no two messages of the list have the same id.
C21_UniqueMessageIds ==
  \A i, j \in 1..Len(messages) : i # j => messages[i].id # messages[j].id

\* ------------------------------------------------------------------ properties of the catch block
\* The steps that are shown as active.
ActiveSteps == {i \in 1..Len(extractionSteps) : extractionSteps[i].status = "active"}

\* C22: when the catch block runs, the step that is active, and no other, is
\* marked error, and every other step keeps its status; then every record of
\* the invocation's id becomes failed with a non-empty error message and
\* keeps its rowsExtracted, rowsInserted and tablesAffected.
C22_CatchMarksActiveStep ==
  [][\A p \in 1..Len(procs) :
       /\ procs[p].phase = "catch"
            => /\ Cardinality(ActiveSteps) <= 1
               /\ Len(extractionSteps') = Len(extractionSteps)
               /\ \A i \in 1..Len(extractionSteps) :
                    extractionSteps'[i].status
                      = (IF i \in ActiveSteps THEN "error" ELSE extractionSteps[i].status)
       /\ procs[p].phase = "fail"
            => \A k \in 1..Len(jobs) :
                 FromTail(jobs, k).id = procs[p].jobId
                   => /\ FromTail(jobs', k).status = "failed"
                      /\ FromTail(jobs', k).error \notin {NoValue, ""}
                      /\ FromTail(jobs', k).rowsExtracted = FromTail(jobs, k).rowsExtracted
                      /\ FromTail(jobs', k).rowsInserted = FromTail(jobs, k).rowsInserted
                      /\ FromTail(jobs', k).tablesAffected = FromTail(jobs, k).tablesAffected]_vars

\* The request of the only job timed out while the insert stage was active:
\* the four stages before it are completed, insert is in error, verify is
\* pending, and the job is failed with the message of the timeout.
C22_Witness ==
  /\ Len(procs) = 1 /\ procs[1].phase = "done"
  /\ Len(extractionSteps) = Len(StepIds)
  /\ \A i \in 1..4 : extractionSteps[i].status = "completed"
  /\ extractionSteps[5].status = "error"
  /\ extractionSteps[6].status = "pending"
  /\ jobs[1].status = "failed"
  /\ jobs[1].error = "timeout of 300000ms exceeded"
  /\ jobs[1].rowsExtracted = 0 /\ jobs[1].rowsInserted = 0 /\ jobs[1].tablesAffected = <<>>

\* C23: a job has completedAt set if and only if its status is completed or
\* failed.
C23_CompletedAtIffTerminal ==
  \A i \in 1..Len(jobs) :
    (jobs[i].completedAt # NoValue) <=> (jobs[i].status \in TerminalStatuses)

\* C24: the two counters of every job are equal, and the counters of a job
\* created by startExtraction are 0 as long as its own invocation has not
\* processed the response of its request.
C24_CountersEqual ==
  /\ \A i \in 1..Len(jobs) : jobs[i].rowsInserted = jobs[i].rowsExtracted
  /\ \A p \in 1..Len(procs) :
       procs[p].phase # "done"
         => /\ FromTail(jobs, Len(SeedJobs) + p).rowsExtracted = 0
            /\ FromTail(jobs, Len(SeedJobs) + p).rowsInserted = 0

====
